---- MODULE Spec2Model ----
(***************************************************************************)
(* GMRES solver of ViennaCL (viennacl/linalg/gmres.hpp): the configuration *)
(* tag gmres_tag and the restarted Householder ("simpler GMRES") solve().  *)
(*                                                                         *)
(* Scalars.  CPU_ScalarType is modelled as a fixed-point number: the       *)
(* integer n stands for n / ONE, results are rounded to the nearest unit,  *)
(* and the value NaN is absorbing for arithmetic and makes every ordered   *)
(* comparison false, as in IEEE-754.  One unit plays the role of the       *)
(* machine epsilon.                                                        *)
(***************************************************************************)
EXTENDS Integers, Sequences, FiniteSets

\* ------------------------------------------------------------------------
\* Scalar arithmetic (CPU_ScalarType)
\* ------------------------------------------------------------------------

\* the scalar 1.0
ONE == 1000

\* std::numeric_limits<CPU_ScalarType>::epsilon(): the gap between 1.0 and the next value
Epsilon == 1

\* the IEEE not-a-number value (a sentinel outside the range of finite scalars)
NaN == 2000000000

IsNaN(x) == x = NaN

Finite(x) == x # NaN

\* n / d for d > 0, rounded to the nearest integer
RDiv(n, d) == (2 * n + d) \div (2 * d)

Neg(a) == IF IsNaN(a) THEN NaN ELSE 0 - a

Add(a, b) == IF IsNaN(a) \/ IsNaN(b) THEN NaN ELSE a + b

Sub(a, b) == IF IsNaN(a) \/ IsNaN(b) THEN NaN ELSE a - b

\* a * b; the product is split so that intermediate values stay small
Mul(a, b) ==
  IF IsNaN(a) \/ IsNaN(b) THEN NaN
  ELSE a * (b \div ONE) + RDiv(a * (b % ONE), ONE)

\* a / b; 0/0 and anything involving NaN give NaN
Div(a, b) ==
  IF IsNaN(a) \/ IsNaN(b) \/ b = 0 THEN NaN
  ELSE IF b > 0 THEN RDiv(a * ONE, b) ELSE RDiv((0 - a) * ONE, 0 - b)

\* std::fabs
Fabs(a) == IF IsNaN(a) THEN NaN ELSE IF a < 0 THEN 0 - a ELSE a

\* a < b and a > b on scalars: false when an operand is NaN
Lt(a, b) == Finite(a) /\ Finite(b) /\ a < b

Gt(a, b) == Finite(a) /\ Finite(b) /\ a > b

RECURSIVE ISqrtBetween(_, _, _)
ISqrtBetween(n, lo, hi) ==
  IF lo >= hi THEN lo
  ELSE LET mid == (lo + hi + 1) \div 2
       IN IF mid * mid <= n THEN ISqrtBetween(n, mid, hi)
                            ELSE ISqrtBetween(n, lo, mid - 1)

\* floor of the square root of the integer n >= 0
ISqrt(n) == ISqrtBetween(n, 0, 46340)

\* std::sqrt: NaN for a negative argument
Sqrt(x) == IF IsNaN(x) \/ x < 0 THEN NaN ELSE ISqrt(x * ONE)

\* std::sin(std::acos(x)) = sqrt(1 - x^2) on [-1, 1]; acos is NaN outside
SinAcos(x) ==
  IF IsNaN(x) \/ x > ONE \/ x < 0 - ONE THEN NaN
  ELSE ISqrt(ONE * ONE - x * x)

\* ------------------------------------------------------------------------
\* Vector primitives (viennacl::traits, viennacl::linalg)
\* ------------------------------------------------------------------------

\* VectorType v(n) followed by viennacl::traits::clear(v)
ZeroVec(n) == [i \in 1..n |-> 0]

AnyNaN(v) == \E i \in 1..Len(v) : IsNaN(v[i])

RECURSIVE SumProd(_, _, _)
SumProd(u, v, n) == IF n = 0 THEN 0 ELSE u[n] * v[n] + SumProd(u, v, n - 1)

\* viennacl::linalg::inner_prod(u, v)
inner_prod(u, v) ==
  IF AnyNaN(u) \/ AnyNaN(v) THEN NaN ELSE RDiv(SumProd(u, v, Len(u)), ONE)

\* viennacl::linalg::norm_2(v)
norm_2(v) == IF AnyNaN(v) THEN NaN ELSE ISqrt(SumProd(v, v, Len(v)))

\* viennacl::linalg::prod(matrix, v) for a dense matrix given by its rows
prod(m, v) ==
  [i \in 1..Len(m) |-> IF AnyNaN(v) THEN NaN ELSE RDiv(SumProd(m[i], v, Len(v)), ONE)]

\* u - v, u + v, v * s, v / s
VSub(u, v) == [i \in 1..Len(u) |-> Sub(u[i], v[i])]

VAdd(u, v) == [i \in 1..Len(u) |-> Add(u[i], v[i])]

VScale(v, s) == [i \in 1..Len(v) |-> Mul(v[i], s)]

VDiv(v, s) == [i \in 1..Len(v) |-> Div(v[i], s)]

\* v -= u * (inner_prod(u, v) * 2): the Householder reflection with vector u
Reflect(v, u) == VSub(v, VScale(u, Mul(inner_prod(u, v), 2 * ONE)))

\* code index i (zero-based) of the std::vector or VectorType s
At(s, i) == s[i + 1]

\* s with s[i] = x (zero-based)
Put(s, i, x) == [s EXCEPT ![i + 1] = x]

\* ------------------------------------------------------------------------
\* gmres_tag
\* ------------------------------------------------------------------------

\* max_restarts() without the adjustment for an exact division
max_restarts_unadjusted(iterations, kd) == iterations \div kd

\* gmres_tag::max_restarts() for iterations_ = iterations, krylov_dim_ = kd
max_restarts(iterations, kd) ==
  LET ret == iterations \div kd
  IN IF ret > 0 /\ ret * kd = iterations THEN ret - 1 ELSE ret

\* the constructor's default arguments
DefaultTol == 1

DefaultMaxIterations == 300

DefaultKrylovDim == 20

\* bounds of the configurations drawn besides the default one
MaxIterations == 3

MaxKrylovDim == 3

\* tolerances drawn: one unit (the smallest positive tolerance) and 0.05
Tolerances == {DefaultTol, 50}

\* (tol, max_iterations, krylov_dim) as passed to the constructor
Configs ==
  {<<DefaultTol, DefaultMaxIterations, DefaultKrylovDim>>}
    \cup (Tolerances \X (1..MaxIterations) \X (1..MaxKrylovDim))

\* values an uninitialized double member may hold
Indeterminate == {0, 777}

\* ------------------------------------------------------------------------
\* Inputs of solve(): dense matrices (rows) and right-hand sides
\* ------------------------------------------------------------------------

Identity1 == << <<ONE>> >>

Identity2 == << <<ONE, 0>>, <<0, ONE>> >>

Spd2 == << <<4 * ONE, ONE>>, <<ONE, 3 * ONE>> >>

Zero2 == << <<0, 0>>, <<0, 0>> >>

Rot2 == << <<0, 0 - ONE>>, <<ONE, 0>> >>

\* a singular matrix: after one step the residual lies in its null space
Sing2 == << <<0 - ONE, 0>>, <<0, 0>> >>

\* a right-hand side of norm 0.03, below 1 and below the larger tolerance
SmallRhs == <<30, 0>>

Problems ==
  ({Identity1} \X {<<0>>, <<ONE>>, <<0 - 2 * ONE>>})
    \cup ({Identity2, Spd2, Zero2, Rot2}
            \X {<<0, 0>>, <<3 * ONE, 4 * ONE>>, <<2 * ONE, 0>>, <<ONE, 2 * ONE>>})
    \cup {<<Sing2, <<ONE, 2 * ONE>> >>, <<Rot2, SmallRhs>>}

\* ------------------------------------------------------------------------
\* State
\* ------------------------------------------------------------------------

VARIABLES
  tol_, iterations_, krylov_dim_,     \* gmres_tag: configuration
  iters_taken_, last_error_,          \* gmres_tag: mutable run outputs
  restarts,                           \* last value returned by max_restarts(), -1 before
  pc,                                 \* position in solve(): idle, cycle, inner, solve,
                                      \* update, check, done, fault
  matrix, rhs,                        \* arguments of the running solve()
  problem_size, krylov_dim, result, res, v_k_tilde,
  R, projection_rhs, U, norm_rhs, rho_0, rho, k, it,
  branch,                             \* which return statement ended the call
  exit_kind,                          \* how the last inner loop was left
  steps, cycles,                      \* inner steps and restart cycles of this call
  error_set,                          \* tag.error() was called during this call
  rho_before, acos_arg,               \* rho before the last step, last argument of acos
  fresh,                              \* entries of R, projection_rhs written this cycle
  prev                                \* outcome of the previous call on this tag

tagvars == <<tol_, iterations_, krylov_dim_, iters_taken_, last_error_>>

locals == <<matrix, rhs, problem_size, krylov_dim, result, res, v_k_tilde,
            R, projection_rhs, U, norm_rhs, rho_0, rho, k, it>>

ghosts == <<branch, exit_kind, steps, cycles, error_set, rho_before, acos_arg, fresh, prev>>

vars == <<tagvars, restarts, pc, locals, ghosts>>

\* the frame of solve() when no call is running
NoFrame ==
  /\ matrix = <<>> /\ rhs = <<>> /\ problem_size = 0 /\ krylov_dim = 0
  /\ result = <<>> /\ res = <<>> /\ v_k_tilde = <<>> /\ R = <<>>
  /\ projection_rhs = <<>> /\ U = <<>> /\ norm_rhs = 0 /\ rho_0 = 0 /\ rho = 0
  /\ k = 0 /\ it = 0
  /\ branch = "none" /\ exit_kind = "none" /\ steps = 0 /\ cycles = 0
  /\ error_set = FALSE /\ rho_before = 0 /\ acos_arg = 0 /\ fresh = {}

\* gmres_tag(tol, max_iterations, krylov_dim): last_error_ is left uninitialized
Init ==
  /\ \E c \in Configs : tol_ = c[1] /\ iterations_ = c[2] /\ krylov_dim_ = c[3]
  /\ iters_taken_ = 0
  /\ last_error_ \in Indeterminate
  /\ restarts = 0 - 1
  /\ pc = "idle"
  /\ NoFrame
  /\ prev = <<>>

\* ------------------------------------------------------------------------
\* solve(): entry (lines 130-162)
\* ------------------------------------------------------------------------

\* the local krylov_dim without the clamp of lines 134-135
UnclampedKrylovDim(size, kd) == kd

\* the local krylov_dim: tag.krylov_dim(), clamped to the problem size
ClampedKrylovDim(size, kd) == IF size < kd THEN size ELSE kd

SolveBegin(m, b) ==
  /\ pc = "idle"
  /\ matrix' = m
  /\ rhs' = b
  /\ problem_size' = Len(b)
  /\ result' = ZeroVec(Len(b))
  /\ krylov_dim' = ClampedKrylovDim(Len(b), krylov_dim_)
  /\ res' = ZeroVec(Len(b))
  /\ v_k_tilde' = ZeroVec(Len(b))
  /\ projection_rhs' = ZeroVec(krylov_dim')
  /\ norm_rhs' = norm_2(b)
  /\ rho_0' = 0 /\ rho' = 0 /\ k' = 0 /\ it' = 0
  /\ exit_kind' = "none" /\ steps' = 0 /\ cycles' = 0 /\ error_set' = FALSE
  /\ rho_before' = 0 /\ acos_arg' = 0 /\ fresh' = {}
  /\ UNCHANGED <<tol_, iterations_, krylov_dim_, last_error_, prev>>
  /\ IF norm_rhs' = 0
       THEN \* solution is zero if RHS norm is zero
            /\ R' = [j \in 1..krylov_dim' |-> <<>>]
            /\ U' = [j \in 1..krylov_dim' |-> <<>>]
            /\ pc' = "done"
            /\ branch' = "zero_rhs"
            /\ UNCHANGED <<iters_taken_, restarts>>
       ELSE /\ R' = [j \in 1..krylov_dim' |-> ZeroVec(krylov_dim_)]
            /\ U' = [j \in 1..krylov_dim' |-> ZeroVec(Len(b))]
            /\ iters_taken_' = 0
            /\ restarts' = max_restarts(iterations_, krylov_dim_)
            /\ pc' = "cycle"
            /\ branch' = "none"

\* ------------------------------------------------------------------------
\* solve(): start of a restart cycle (lines 168-193)
\* ------------------------------------------------------------------------

\* the accesses R[k], U[k] of the reset loop, k < krylov_dim, are in range
\* (an out-of-range access is undefined behaviour: the call ends in "fault")
ResetInRange ==
  \A j \in 0..(krylov_dim - 1) : j < Len(R) /\ j < Len(U)

\* the cycle's start once the residual r0 = rhs - A * result and its norm are known
StartCycleWith(r0, n0) ==
  /\ rho_0' = n0
  /\ rho' = ONE
  /\ cycles' = cycles + 1
  /\ IF Lt(Div(n0, norm_rhs), tol_) \/ norm_rhs = 0
       THEN \* allowed error reached at begin of loop
            /\ res' = r0
            /\ last_error_' = Div(n0, norm_rhs)
            /\ error_set' = TRUE
            /\ pc' = "done"
            /\ branch' = "converged_at_start"
            /\ UNCHANGED <<R, U, k, fresh, rho_before, exit_kind>>
       ELSE IF ~ResetInRange
         THEN /\ pc' = "fault"
              /\ UNCHANGED <<res, last_error_, error_set, branch, R, U, k,
                             fresh, rho_before, exit_kind>>
         ELSE /\ res' = VDiv(r0, n0)
              /\ R' = [j \in 1..Len(R) |-> ZeroVec(krylov_dim)]
              /\ U' = [j \in 1..Len(U) |-> ZeroVec(problem_size)]
              /\ k' = 0
              /\ fresh' = {}
              /\ rho_before' = ONE
              /\ exit_kind' = "none"
              /\ pc' = IF 0 < krylov_dim THEN "inner" ELSE "solve"
              /\ UNCHANGED <<last_error_, error_set, branch>>

\* res = rhs - prod(matrix, result), with no_precond
Residual(m, b, x) == VSub(b, prod(m, x))

StartCycleAt(r0) == StartCycleWith(r0, norm_2(r0))

CycleStart ==
  /\ pc = "cycle"
  /\ StartCycleAt(Residual(matrix, rhs, result))
  /\ UNCHANGED <<tol_, iterations_, krylov_dim_, iters_taken_, restarts,
                 matrix, rhs, problem_size, krylov_dim, result, v_k_tilde,
                 projection_rhs, norm_rhs, it, steps, acos_arg, prev>>

\* ------------------------------------------------------------------------
\* solve(): one step of the inner loop (lines 195-290)
\* ------------------------------------------------------------------------

\* Householder rotations part 1: for (i = from; i > -1; --i) v -= U[i] * ...
RECURSIVE ReflectDown(_, _, _)
ReflectDown(v, us, from) ==
  IF from < 0 THEN v ELSE ReflectDown(Reflect(v, At(us, from)), us, from - 1)

\* Householder rotations part 2: for (i = from; i < to; ++i) v -= U[i] * ...
RECURSIVE ReflectUp(_, _, _, _)
ReflectUp(v, us, from, to) ==
  IF from >= to THEN v ELSE ReflectUp(Reflect(v, At(us, from)), us, from + 1, to)

\* v_k_tilde of step kk: A * res for kk = 0, else P_0..P_{kk-1} A P_{kk-1}..P_0 e_{kk-1}
\* (the preconditioner is no_precond)
Candidate(m, r, us, kk) ==
  IF kk = 0 THEN prod(m, r)
  ELSE ReflectUp(prod(m, ReflectDown(Put(ZeroVec(Len(r)), kk - 1, ONE), us, kk - 1)),
                 us, 0, kk)

\* U[k] after lines 224-229: the first kk entries of v, then the completed diagonal
FirstEntries(v, kk) == [i \in 1..Len(v) |-> IF i <= kk THEN v[i] ELSE 0]

Completed(v, head, kk) ==
  Put(head, kk, Sqrt(Sub(inner_prod(v, v), inner_prod(head, head))))

Column(v, kk) == Completed(v, FirstEntries(v, kk), kk)

\* the breakdown check of line 231
Breakdown(ukk) == Lt(Fabs(ukk), 10 * Epsilon)

\* U[k] *= -1 / norm_2(U[k]); a zero norm gives -1/0 = -inf, and the entries of a
\* vector of norm zero are all 0, so each becomes 0 * -inf = NaN
ScaleByNegInv(u, n) ==
  IF n = 0 THEN [i \in 1..Len(u) |-> NaN] ELSE VScale(u, Div(0 - ONE, n))

NegInvNormScale(u) == ScaleByNegInv(u, norm_2(u))

\* lines 265-269: the two clamping tests on res[k], in order
ClampTo(x, r) ==
  LET x1 == IF Gt(x, r) THEN r ELSE x
  IN IF Lt(x1, Neg(r)) THEN Neg(r) ELSE x1

\* the residual estimate |rho * rho_0 / norm_rhs| of lines 280, 283, 337, 340
RelativeEstimate(rh, r0, nr) == Fabs(Div(Mul(rh, r0), nr))

\* k incremented both by line 284 and by the loop header
KAfterStepTwice(kk) == kk + 2

\* k after a step that passed the breakdown check: ++k of the loop or of line 284
KAfterStep(kk) == kk + 1

\* accesses made by every step: v_k_tilde[k-1], U[i] for i <= k, U[k][k]
StepInRange ==
  /\ k < Len(U)
  /\ k < problem_size
  /\ k > 0 => k - 1 < Len(v_k_tilde)

\* further accesses of a step without breakdown: R[k][0..k], res[k], projection_rhs[k]
StoreInRange ==
  /\ k < Len(R)
  /\ k < Len(At(R, k))
  /\ k < Len(res)
  /\ k < Len(projection_rhs)

\* lines 265-280 of a step: clamp res[k], store it, update rho, estimate the error
Projected(u0, u, r1, c, rh, r0, nr) ==
  [breakdown |-> FALSE, column |-> u0, u |-> u, res |-> Put(r1, k, c), coeff |-> c,
   arg |-> Div(c, rh), rho |-> Mul(rh, SinAcos(Div(c, rh))),
   est |-> RelativeEstimate(Mul(rh, SinAcos(Div(c, rh))), r0, nr)]

\* lines 251-269: reflect res with the new U[k], clamp its k-th entry
Reflected(u0, u, r1, rh, r0, nr) ==
  Projected(u0, u, r1, ClampTo(At(r1, k), rh), rh, r0, nr)

\* lines 231-251: breakdown check, then the Householder vector U[k]
Orthogonalized(v, u0, r, rh, r0, nr) ==
  IF Breakdown(At(u0, k)) THEN [breakdown |-> TRUE, column |-> u0]
  ELSE Reflected(u0, NegInvNormScale(VSub(u0, v)),
                 Reflect(r, NegInvNormScale(VSub(u0, v))), rh, r0, nr)

\* what one step computes from the candidate vector v
StepOutcome(v) == Orthogonalized(v, Column(v, k), res, rho, rho_0, norm_rhs)

\* an iteration counter that a started step leaves alone
ItersNotCounted(n) == n

\* tag.iters(tag.iters() + 1) at the head of every step
ItersAfterStep(n) == n + 1

\* the assignments of a step with candidate v and outcome o
StepWith(v, o) ==
  /\ iters_taken_' = ItersAfterStep(iters_taken_)
  /\ steps' = steps + 1
  /\ v_k_tilde' = v
  /\ IF o.breakdown
       THEN /\ U' = Put(U, k, o.column)
            /\ pc' = "solve"
            /\ exit_kind' = "breakdown"
            /\ UNCHANGED <<last_error_, R, res, projection_rhs, rho, k,
                           error_set, rho_before, acos_arg, fresh>>
       ELSE IF ~StoreInRange
         THEN /\ U' = Put(U, k, o.column)
              /\ pc' = "fault"
              /\ UNCHANGED <<last_error_, R, res, projection_rhs, rho, k,
                             exit_kind, error_set, rho_before, acos_arg, fresh>>
         ELSE /\ R' = Put(R, k, [i \in 1..Len(At(R, k)) |->
                                   IF i <= k + 1 THEN o.column[i] ELSE At(R, k)[i]])
              /\ U' = Put(U, k, o.u)
              /\ res' = o.res
              /\ projection_rhs' = Put(projection_rhs, k, o.coeff)
              /\ fresh' = fresh \cup {k}
              /\ rho_before' = rho
              /\ acos_arg' = o.arg
              /\ rho' = o.rho
              /\ k' = KAfterStep(k)
              /\ IF Lt(o.est, tol_)
                   THEN /\ last_error_' = o.est
                        /\ error_set' = TRUE
                        /\ exit_kind' = "converged"
                        /\ pc' = "solve"
                   ELSE /\ UNCHANGED <<last_error_, error_set>>
                        /\ exit_kind' = IF k' < krylov_dim THEN "none" ELSE "exhausted"
                        /\ pc' = IF k' < krylov_dim THEN "inner" ELSE "solve"

StepAt(v) == StepWith(v, StepOutcome(v))

InnerStep ==
  /\ pc = "inner"
  /\ IF ~StepInRange
       THEN /\ pc' = "fault"
            /\ UNCHANGED <<iters_taken_, last_error_, v_k_tilde, U, R, res,
                           projection_rhs, rho, k, exit_kind, steps, error_set,
                           rho_before, acos_arg, fresh>>
       ELSE StepAt(Candidate(matrix, res, U, k))
  /\ UNCHANGED <<tol_, iterations_, krylov_dim_, restarts, matrix, rhs, problem_size,
                 krylov_dim, result, norm_rhs, rho_0, it, branch, cycles, prev>>

\* ------------------------------------------------------------------------
\* solve(): triangular solve (lines 306-313)
\* ------------------------------------------------------------------------

\* for (j = from; j < kk; ++j) p[i] -= R[j][i] * p[j]     (R is transposed)
RECURSIVE Eliminate(_, _, _, _, _)
Eliminate(p, rr, i, from, kk) ==
  IF from >= kk THEN p
  ELSE Eliminate(Put(p, i, Sub(At(p, i), Mul(At(At(rr, from), i), At(p, from)))),
                 rr, i, from + 1, kk)

\* p[i] /= R[i][i]
Divided(p, rr, i) == Put(p, i, Div(At(p, i), At(At(rr, i), i)))

\* for (i = from; i > -1; --i) { eliminate; p[i] /= R[i][i]; }
RECURSIVE BackSubstitute(_, _, _, _)
BackSubstitute(p, rr, from, kk) ==
  IF from < 0 THEN p
  ELSE BackSubstitute(Divided(Eliminate(p, rr, from, from + 1, kk), rr, from),
                      rr, from - 1, kk)

\* accesses projection_rhs[i], R[j][i] for i <= j < k
SolveInRange ==
  \A i \in 0..(k - 1) :
    /\ i < Len(projection_rhs)
    /\ \A j \in i..(k - 1) : j < Len(R) /\ i < Len(At(R, j))

TriangularSolve ==
  /\ pc = "solve"
  /\ IF ~SolveInRange
       THEN pc' = "fault" /\ UNCHANGED projection_rhs
       ELSE /\ projection_rhs' = BackSubstitute(projection_rhs, R, k - 1, k)
            /\ pc' = "update"
  /\ UNCHANGED <<tagvars, restarts, matrix, rhs, problem_size, krylov_dim, result, res,
                 v_k_tilde, R, U, norm_rhs, rho_0, rho, k, it, ghosts>>

\* ------------------------------------------------------------------------
\* solve(): solution reconstruction (lines 321-335)
\* ------------------------------------------------------------------------

\* lines 323-329: res[i] += projection_rhs[i+1] for i < k-1, when k > 0
FoldCoefficients(r, p, kk) ==
  [i \in 1..Len(r) |-> IF kk > 0 /\ i - 1 < kk - 1 THEN Add(r[i], At(p, i)) ELSE r[i]]

\* the correction added to result
Correction(r, p, us, kk, r0) ==
  VScale(ReflectDown(FoldCoefficients(VScale(r, At(p, 0)), p, kk), us, kk - 1), r0)

\* accesses projection_rhs[0], res[i] and projection_rhs[i+1] for i < k-1, U[i] for i < k
UpdateInRange ==
  /\ 0 < Len(projection_rhs)
  /\ k > 0 => \A i \in 0..(k - 2) : i < Len(res) /\ i + 1 < Len(projection_rhs)
  /\ \A i \in 0..(k - 1) : i < Len(U)

\* res *= rho_0 has produced c; result += res
AddCorrection(c) ==
  /\ res' = c
  /\ result' = VAdd(result, c)
  /\ pc' = "check"

UpdateResult ==
  /\ pc = "update"
  /\ IF ~UpdateInRange
       THEN pc' = "fault" /\ UNCHANGED <<res, result>>
       ELSE AddCorrection(Correction(res, projection_rhs, U, k, rho_0))
  /\ UNCHANGED <<tagvars, restarts, matrix, rhs, problem_size, krylov_dim, v_k_tilde,
                 R, projection_rhs, U, norm_rhs, rho_0, rho, k, it, ghosts>>

\* ------------------------------------------------------------------------
\* solve(): end of a restart cycle (lines 337-351) and the loop header (line 164)
\* ------------------------------------------------------------------------

\* a restart loop whose index does not advance
NextItStuck(i) == i

\* ++it
NextIt(i) == i + 1

\* the end-of-cycle value, had line 350 divided by norm_rhs like line 340
CycleErrorNormalized(rh, r0, nr) == Fabs(Div(Mul(rh, r0), nr))

\* the value recorded when a cycle ends without convergence (line 350)
CycleError(rh, r0, nr) == Fabs(Mul(rh, r0))

CycleEnd ==
  /\ pc = "check"
  /\ IF Lt(RelativeEstimate(rho, rho_0, norm_rhs), tol_)
       THEN \* allowed error reached at end of loop
            /\ last_error_' = RelativeEstimate(rho, rho_0, norm_rhs)
            /\ pc' = "done"
            /\ branch' = "converged_at_end"
            /\ UNCHANGED <<it, restarts>>
       ELSE /\ last_error_' = CycleError(rho, rho_0, norm_rhs)
            /\ it' = NextIt(it)
            /\ restarts' = max_restarts(iterations_, krylov_dim_)
            /\ IF it' <= restarts'
                 THEN pc' = "cycle" /\ branch' = "none"
                 ELSE pc' = "done" /\ branch' = "exhausted"
  /\ error_set' = TRUE
  /\ UNCHANGED <<tol_, iterations_, krylov_dim_, iters_taken_, matrix, rhs, problem_size,
                 krylov_dim, result, res, v_k_tilde, R, projection_rhs, U, norm_rhs,
                 rho_0, rho, k, exit_kind, steps, cycles, rho_before, acos_arg, fresh,
                 prev>>

\* ------------------------------------------------------------------------
\* return to the caller; gmres_tag::max_restarts() called by the user
\* ------------------------------------------------------------------------

Return ==
  /\ pc = "done"
  /\ pc' = "idle"
  /\ prev' = << [matrix |-> matrix, rhs |-> rhs, result |-> result,
                 iters |-> iters_taken_, error |-> last_error_] >>
  /\ matrix' = <<>> /\ rhs' = <<>> /\ problem_size' = 0 /\ krylov_dim' = 0
  /\ result' = <<>> /\ res' = <<>> /\ v_k_tilde' = <<>> /\ R' = <<>>
  /\ projection_rhs' = <<>> /\ U' = <<>> /\ norm_rhs' = 0 /\ rho_0' = 0 /\ rho' = 0
  /\ k' = 0 /\ it' = 0
  /\ branch' = "none" /\ exit_kind' = "none" /\ steps' = 0 /\ cycles' = 0
  /\ error_set' = FALSE /\ rho_before' = 0 /\ acos_arg' = 0 /\ fresh' = {}
  /\ UNCHANGED <<tagvars, restarts>>

QueryMaxRestarts ==
  /\ pc = "idle"
  /\ restarts' = max_restarts(iterations_, krylov_dim_)
  /\ UNCHANGED <<tagvars, pc, locals, ghosts>>

Next ==
  \/ \E p \in Problems : SolveBegin(p[1], p[2])
  \/ CycleStart
  \/ InnerStep
  \/ TriangularSolve
  \/ UpdateResult
  \/ CycleEnd
  \/ Return
  \/ QueryMaxRestarts

Spec == Init /\ [][Next]_vars

\* ------------------------------------------------------------------------
\* Properties
\* ------------------------------------------------------------------------

Min(a, b) == IF a < b THEN a ELSE b

\* the effective Krylov dimension of the running call
EffectiveDim == Min(krylov_dim_, problem_size)

IsIdentity(m) == m \in {Identity1, Identity2}

\* C1: the iteration count recorded by solve never exceeds max_iterations.
C1_IterationsWithinBudget == iters_taken_ <= iterations_

\* C2: for a zero rhs, solve returns the zero vector of the dimension of rhs without
\* building any basis, and iterations_taken is 0 after the call, also on a
\* configuration object that an earlier solve has used.
C2_ZeroRhsGivesZeroIterations ==
  (pc = "done" /\ branch = "zero_rhs") =>
    /\ result = ZeroVec(Len(rhs))
    /\ steps = 0 /\ cycles = 0
    /\ iters_taken_ = 0

\* C3: a call with the inputs of the previous call returns the same vector and
\* leaves the same run outputs, and every call overwrites both run outputs, so that
\* they belong to the call that just returned.
C3_OutputsOfLastCallOnly ==
  pc = "done" =>
    /\ iters_taken_ = steps
    /\ error_set
    /\ (prev # <<>> /\ prev[1].matrix = matrix /\ prev[1].rhs = rhs) =>
         /\ result = prev[1].result
         /\ iters_taken_ = prev[1].iters
         /\ last_error_ = prev[1].error

\* C4: the local krylov_dim is the configured one clamped to problem_size, the working
\* containers have that many (resp. problem_size) elements, and no index used on res,
\* the candidate vector, U, R or projection_rhs is beyond its container.
C4_AccessesInRange ==
  /\ pc # "fault"
  /\ pc \in {"cycle", "inner", "solve", "update", "check"} =>
       /\ krylov_dim = EffectiveDim
       /\ k <= krylov_dim
       /\ Len(res) = problem_size /\ Len(v_k_tilde) = problem_size
       /\ Len(result) = problem_size
       /\ Len(U) = krylov_dim /\ Len(R) = krylov_dim
       /\ Len(projection_rhs) = krylov_dim
       /\ \A j \in 1..krylov_dim : Len(U[j]) = problem_size
  /\ pc \in {"inner", "solve", "update", "check"} =>
       \A j \in 1..krylov_dim : Len(R[j]) = krylov_dim

\* C4 witness: an inner loop ran to exhaustion with a configured krylov_dim above
\* the problem size.
C4_Witness ==
  /\ pc = "solve" /\ exit_kind = "exhausted"
  /\ krylov_dim_ > problem_size /\ k = problem_size

\* C5: for the identity operator and a non-zero rhs, solve returns after one inner
\* step: the first cycle ends with k_eff = 1, iterations_taken = 1, a finite result.
C5_IdentityInOneStep ==
  (pc = "done" /\ IsIdentity(matrix) /\ branch # "zero_rhs") =>
    /\ iters_taken_ = 1 /\ cycles = 1 /\ k = 1
    /\ ~AnyNaN(result)

\* the budget of a call: at most max_restarts()+1 cycles of at most
\* min(krylov_dim, problem_size) steps each, and no cycle is entered once the loop
\* index has passed max_restarts()
C6_Budget ==
  /\ pc \in {"idle", "cycle", "inner", "solve", "update", "check", "done"}
  /\ cycles <= max_restarts(iterations_, krylov_dim_) + 1
  /\ k <= EffectiveDim
  /\ steps <= cycles * EffectiveDim
  /\ pc \in {"cycle", "inner", "solve", "update", "check"} =>
       it <= max_restarts(iterations_, krylov_dim_)

\* the position of a running call, counted in steps of solve(): a cycle has one
\* start, at most EffectiveDim inner steps, a triangular solve, an update and an end
C6_CycleLength == EffectiveDim + 4

C6_Rank ==
  IF pc = "done" THEN (max_restarts(iterations_, krylov_dim_) + 1) * C6_CycleLength
  ELSE it * C6_CycleLength
         + (CASE pc = "cycle" -> 0
              [] pc = "inner" -> 1 + k
              [] pc = "solve" -> 1 + EffectiveDim
              [] pc = "update" -> 2 + EffectiveDim
              [] pc = "check" -> 3 + EffectiveDim
              [] OTHER -> 0)

\* a step of a running call moves it strictly closer to its return
C6_Progress ==
  pc \in {"cycle", "inner", "solve", "update", "check"} =>
    /\ C6_Rank' > C6_Rank
    /\ C6_Rank' <= (max_restarts(iterations_, krylov_dim_) + 1) * C6_CycleLength
    /\ pc' \in {"cycle", "inner", "solve", "update", "check", "done"}

\* C6: solve terminates: it stays within the budget of cycles and steps, and every
\* step of a running call moves it strictly closer to its return, which is at most
\* (max_restarts()+1) * (min(krylov_dim, problem_size) + 4) steps from the start.
C6_Terminates == []C6_Budget /\ [][C6_Progress]_vars

\* C6 witness: a call returned with the restart loop exhausted after more than one cycle.
C6_Witness == pc = "done" /\ branch = "exhausted" /\ cycles > 1

\* the value of max_restarts(): the quotient max_iterations / krylov_dim, minus one
\* exactly when the division is exact and the quotient positive
C7_Value ==
  restarts # 0 - 1 =>
    /\ restarts =
         IF iterations_ % krylov_dim_ = 0 /\ iterations_ >= krylov_dim_
           THEN (iterations_ \div krylov_dim_) - 1
           ELSE iterations_ \div krylov_dim_
    /\ (iterations_ = 300 /\ krylov_dim_ = 20) => restarts = 14
    /\ iterations_ < krylov_dim_ => restarts = 0

C9_KEffPositive == pc = "solve" => (0 < k /\ k <= EffectiveDim)

\* C9 (amended): after any completed inner loop, 0 <= k_eff <= min(krylov_dim,
\* problem_size), and k_eff = 0 exactly when the breakdown check fired at the first
\* step of the cycle.
C9_KEffBounded ==
  pc = "solve" =>
    /\ 0 <= k /\ k <= EffectiveDim
    /\ k = 0 <=> (exit_kind = "breakdown" /\ fresh = {})

\* C9 witness: an inner loop left by breakdown at its first step.
C9_Witness == pc = "solve" /\ k = 0 /\ exit_kind = "breakdown" /\ steps > 0

\* C10: within an inner loop rho starts at 1, never increases and stays in [0, 1],
\* and the argument of acos lies in [-1, 1].
C10_RhoInUnitInterval ==
  pc \in {"inner", "solve"} =>
    /\ Finite(rho) /\ 0 <= rho /\ rho <= ONE
    /\ Finite(rho_before) /\ rho <= rho_before
    /\ Finite(acos_arg) /\ 0 - ONE <= acos_arg /\ acos_arg <= ONE

\* the state in which an inner loop has just been left
C11_AtExit ==
  pc = "solve" =>
    /\ exit_kind \in {"breakdown", "converged", "exhausted"}
    /\ fresh = 0..(k - 1)
    /\ exit_kind = "exhausted" => k = EffectiveDim
    /\ exit_kind = "breakdown" => k < EffectiveDim
    /\ iters_taken_ = steps

\* what a step of the inner loop does on each of its exits
C11_Step ==
  (pc = "inner" /\ pc' # "fault") =>
    /\ iters_taken_' = iters_taken_ + 1
    /\ pc' \in {"inner", "solve"}
    /\ pc' = "inner" => (k' = k + 1 /\ k' < krylov_dim /\ fresh' = fresh \cup {k})
    /\ (pc' = "solve" /\ exit_kind' = "breakdown") =>
         /\ k' = k /\ fresh' = fresh
         /\ R' = R /\ projection_rhs' = projection_rhs
    /\ (pc' = "solve" /\ exit_kind' = "converged") =>
         /\ k' = k + 1 /\ fresh' = fresh \cup {k}
         /\ At(projection_rhs', k) = At(res', k)
         /\ \A i \in 0..(k - 1) : At(At(R', k), i) = At(v_k_tilde', i)
    /\ (pc' = "solve" /\ exit_kind' = "exhausted") =>
         /\ k' = k + 1 /\ k' = krylov_dim /\ fresh' = fresh \cup {k}

\* C11: the inner loop is left by breakdown, convergence or exhaustion only, and the
\* k it leaves is the number of steps stored in R and projection_rhs in this cycle:
\* breakdown leaves k, R and projection_rhs as they were, convergence leaves k+1 with
\* the step stored, exhaustion leaves the effective krylov_dim; every step started,
\* also one that broke down, has incremented the iteration counter once.
C11_InnerLoopExits == []C11_AtExit /\ [][C11_Step]_vars

\* C11 witness: an inner loop left by breakdown after a stored step.
C11_Witness ==
  pc = "solve" /\ exit_kind = "breakdown" /\ k = 1 /\ fresh = {0} /\ iters_taken_ >= 2

\* C12: at the triangular solve every row j < k_eff of R was written in the current
\* cycle, every diagonal entry R[i][i], i < k_eff, satisfies |R[i][i]| >= 10*epsilon,
\* and so no division projection_rhs[i] /= R[i][i] is a division by zero.
C12_DiagonalAboveThreshold ==
  pc = "solve" =>
    \A i \in 0..(k - 1) :
      /\ i \in fresh
      /\ Finite(At(At(R, i), i))
      /\ Fabs(At(At(R, i), i)) >= 10 * Epsilon

\* U[k] of the last stored step as it was before line 237: the row it left in R
C13_StoredColumn ==
  [i \in 1..problem_size |-> IF i <= k THEN At(R, k - 1)[i] ELSE 0]

\* C13: after a step that passed the breakdown check, the vector U[k] - v_k_tilde that
\* line 239 normalizes has a non-zero norm, so the scaling never divides by zero.
C13_NormalizedVectorNonZero ==
  (pc \in {"inner", "solve"} /\ k > 0 /\ exit_kind # "breakdown") =>
    norm_2(VSub(C13_StoredColumn, v_k_tilde)) # 0

\* the running solution as it was before result += res of line 335
C14_ResultBefore == VSub(result, res)

\* C14: a restart cycle whose inner loop broke down at its first step (k_eff = 0,
\* nothing stored in this cycle) leaves the running solution unchanged, in the first
\* cycle and in every later one.
C14_EmptyCycleKeepsResult ==
  (pc = "check" /\ k = 0 /\ exit_kind = "breakdown" /\ fresh = {}) =>
    result = C14_ResultBefore

\* C15: for a non-zero rhs the recorded error is below the tolerance exactly when
\* solve returned through a convergence check; after a return on exhaustion of the
\* restarts it is not below the tolerance.
C15_ErrorTellsConvergence ==
  (pc = "done" /\ branch # "zero_rhs") =>
    /\ Lt(last_error_, tol_) <=> branch \in {"converged_at_start", "converged_at_end"}
    /\ branch = "exhausted" => ~Lt(last_error_, tol_)

====
